---- MODULE Spec2Model ----
(***************************************************************************)
(* A model of the three command-line programs of the TDD tooling:          *)
(*   - the batch generator    (generate-tests-from-issue, top-level script)*)
(*   - the scaffold generator (scripts/create-tdd-component.js)            *)
(*   - the interactive CLI    (tdd-feature, async main)                    *)
(* Each program is a sequence of steps over a shared picture of the        *)
(* process (argv, stdout, stderr, exit code) and of the file system.       *)
(* The functions imported from the test-generator package                  *)
(* (validateRequirements, generateTestContent, performFullValidation) are  *)
(* not part of the sources; the values they return are inputs of the       *)
(* steps that call them.                                                   *)
(* The module also models the test set-up and the test helpers:            *)
(*   - the storage mock and the afterEach hook      (src/test/setup.ts)    *)
(*   - testComposable / testComposableWithProvide                          *)
(*                          (src/test/helpers/composables-testing.ts)      *)
(*   - waitFor                              (src/test/helpers/index.ts)    *)
(*   - the mount options of render and renderComponent                     *)
(*   - a11y.hasRequiredAriaAttributes and its matcher                      *)
(* Each has its own initial condition and specification; the variables of  *)
(* the parts that do not run keep their idle values.                       *)
(***************************************************************************)
EXTENDS Integers, Sequences, FiniteSets, TLC

(***************************************************************************)
(* Bounds of the model.                                                    *)
(***************************************************************************)
\* longest errors list a validator returns
MaxErrors == 2
\* longest warnings list the content validator returns
MaxWarnings == 1
\* longest list of acceptance criteria / scenarios entered or parsed
MaxCriteria == 1

VARIABLES
    prog,            \* which program this process runs
    pc,              \* position of the main process (batch / interactive)
    exitCode,        \* exit code of the main process, meaningful when pc = "exited"
    argv,            \* process.argv.slice(2) of the program that was launched
    stdout,          \* lines written to standard output
    stderr,          \* lines written to the diagnostic stream
    calls,           \* history: the pipeline stages invoked, in order
    files,           \* the file system: path -> content, for the paths that exist
    dirExists,       \* whether src/components exists
    writes,          \* history: the file writes performed, in order
    start,           \* history: the file system and the directory when the run began
    requirements,    \* batch: JSON.parse result; interactive: the collected record
    validation,      \* batch: result of validateRequirements
    testContent,     \* result of generateTestContent
    contentValidation, \* batch: result of performFullValidation
    answers,         \* interactive: the answers to the prompts
    hasGitHubCLI,    \* interactive: result of the `gh --version` probe
    generateLocal,   \* interactive: answer to the final prompt
    rlOpen,          \* interactive: the readline interface is open
    failed,          \* interactive: history of the subprocess / write failures met
    spc,             \* position of the scaffold generator process
    sargv,           \* process.argv.slice(2) of the scaffold generator process
    sexit            \* exit code of the scaffold generator, meaningful when spc = "exited"

\* the state of the test set-up (src/test/setup.ts) and of the test helpers
VARIABLES
    phase,           \* set-up: where the test run is ("idle" while a program runs)
    store,           \* storage mock: the closure variable `store`, key -> string
    stored,          \* history: key -> the value of the last setItem not yet removed or cleared
    innerHTML,       \* document.body.innerHTML
    mocksCalled,     \* a vi.fn() mock of the set-up holds recorded calls
    got              \* the last call on the storage mock, with what it returned

\* the state of a call of testComposable / testComposableWithProvide
VARIABLES
    tcFn,            \* which of the two functions is called
    tcPlan,          \* what testFn does: returns, throws, resolves, rejects
    tcPc,            \* position inside the function
    unmounts,        \* how often wrapper.unmount() was called
    tcFinished,      \* testFn has returned or thrown, and its promise, if any, has settled
    unmountedEarly,  \* history: unmount was called while tcFinished was false
    tcOutcome        \* what the caller gets: undefined, a throw, a promise and how it settled

\* the state of a call of waitFor
VARIABLES
    now,             \* Date.now()
    wfTimeout,       \* argument timeout
    wfInterval,      \* argument interval
    wfPc,            \* position inside waitFor
    wfStart,         \* const startTime
    wfWake,          \* when the pending setTimeout may fire
    lastEval,        \* history: what the last call of condition returned
    lastEvalAt,      \* history: when the last call of condition returned
    firstEval,       \* history: what the first call of condition returned
    slept            \* history: waitFor has awaited a setTimeout

\* the mount options built by render / renderComponent, and the last check of
\* a11y.hasRequiredAriaAttributes
VARIABLES
    built,           \* the last call of render or renderComponent and the options it built
    checked          \* the last element checked and the answer

storageVars == <<phase, store, stored, innerHTML, mocksCalled, got>>
composableVars == <<tcFn, tcPlan, tcPc, unmounts, tcFinished, unmountedEarly, tcOutcome>>
waitForVars == <<now, wfTimeout, wfInterval, wfPc, wfStart, wfWake, lastEval, lastEvalAt,
                 firstEval, slept>>
renderVars == <<built>>
ariaVars == <<checked>>
testVars == <<storageVars, composableVars, waitForVars, renderVars, ariaVars>>
\* the variables of the command-line programs
cliVars == <<prog, pc, exitCode, argv, start, stdout, stderr, calls, files, dirExists,
             writes, requirements, validation, testContent, contentValidation,
             answers, hasGitHubCLI, generateLocal, rlOpen, failed, spc, sargv, sexit>>
\* what the steps of the storage mock and of the hook leave alone
storageFrame == <<cliVars, composableVars, waitForVars, renderVars, ariaVars>>
\* what the steps of testComposable, of waitFor, of render and of the a11y check leave alone
composableFrame == <<cliVars, storageVars, waitForVars, renderVars, ariaVars>>
waitForFrame == <<cliVars, storageVars, composableVars, renderVars, ariaVars>>
renderFrame == <<cliVars, storageVars, composableVars, waitForVars, ariaVars>>
ariaFrame == <<cliVars, storageVars, composableVars, waitForVars, renderVars>>

procVars == <<prog, pc, exitCode, argv, start>>
ioVars == <<stdout, stderr>>
fsVars == <<files, dirExists, writes>>
batchVars == <<requirements, validation, testContent, contentValidation>>
interVars == <<answers, hasGitHubCLI, generateLocal, rlOpen, failed>>
scaffVars == <<spc, sargv, sexit>>
vars == <<prog, pc, exitCode, argv, start, stdout, stderr, calls, files, dirExists,
          writes, requirements, validation, testContent, contentValidation,
          answers, hasGitHubCLI, generateLocal, rlOpen, failed, spc, sargv, sexit,
          testVars>>

(***************************************************************************)
(* Values.                                                                 *)
(***************************************************************************)
\* all sequences over S of length at most n
SeqsUpTo(S, n) == UNION {[1..k -> S] : k \in 0..n}

\* a value that stands for "not assigned yet"
None == [kind |-> "none"]

\* a line of console output: a tag for the statement that printed it and a body
Line(tag, body) == [tag |-> tag, body |-> body]
Msg(text) == [kind |-> "msg", text |-> text]
Tags(stream) == [i \in 1..Len(stream) |-> stream[i].tag]

\* process.argv[i + 1]: absent arguments are undefined, and undefined and ''
\* are both falsy
Present(args, i) == i <= Len(args)
Falsy(args, i) == ~Present(args, i) \/ args[i] = ""
Arg(args, i) == IF Present(args, i) THEN args[i] ELSE ""

\* a store without keys
EmptyStore == [k \in {} |-> ""]

\* the set-up is not loaded
StorageIdle ==
    /\ phase = "idle" /\ store = EmptyStore /\ stored = EmptyStore
    /\ innerHTML = "" /\ mocksCalled = FALSE /\ got = None

\* no helper is called
ComposableIdle ==
    /\ tcFn = "none" /\ tcPlan = "none" /\ tcPc = "idle" /\ unmounts = 0
    /\ tcFinished = FALSE /\ unmountedEarly = FALSE /\ tcOutcome = "none"
WaitForIdle ==
    /\ now = 0 /\ wfTimeout = 0 /\ wfInterval = 0 /\ wfPc = "idle" /\ wfStart = 0
    /\ wfWake = 0 /\ lastEval = "none" /\ lastEvalAt = 0 /\ firstEval = "none"
    /\ slept = FALSE
RenderIdle == built = None
AriaIdle == checked = None

\* no test runs
TestIdle == StorageIdle /\ ComposableIdle /\ WaitForIdle /\ RenderIdle /\ AriaIdle

(***************************************************************************)
(* Inputs: component names, JSON texts, requirements, validator results.   *)
(***************************************************************************)
\* the component names tried: the empty string and a PascalCase identifier
Names == {"", "Foo"}
Criteria == {"c1"}
ErrMsgs == {"e1", "e2"}
WarnMsgs == {"w1"}

\* a FeatureRequirements value (the lists that are absent are empty here)
Requirements(ac, hp, ec, er) ==
    [kind |-> "requirements", acceptanceCriteria |-> ac, happyPath |-> hp,
     edgeCases |-> ec, errorCases |-> er]

\* the requirementsJson texts tried; the first is not JSON
JsonTexts ==
    {"{bad", "{}", "{\"acceptanceCriteria\":[\"c1\"]}", "{\"happyPath\":[\"c1\"]}",
     "{\"acceptanceCriteria\":[\"c1\",\"c2\"],\"errorCases\":[\"c3\"]}"}

\* JSON.parse on the texts above: whether it returns, and the value
JSONParseOk(text) == text \in JsonTexts \ {"{bad"}
JSONParse(text) ==
    CASE text = "{\"acceptanceCriteria\":[\"c1\"]}" -> Requirements(<<"c1">>, <<>>, <<>>, <<>>)
      [] text = "{\"happyPath\":[\"c1\"]}" -> Requirements(<<>>, <<"c1">>, <<>>, <<>>)
      [] text = "{\"acceptanceCriteria\":[\"c1\",\"c2\"],\"errorCases\":[\"c3\"]}"
              -> Requirements(<<"c1", "c2">>, <<>>, <<>>, <<"c3">>)
      [] OTHER -> Requirements(<<>>, <<>>, <<>>, <<>>)

\* what validateRequirements can return: { valid, errors }
ValidationResults ==
    [kind : {"validation"}, valid : BOOLEAN, errors : SeqsUpTo(ErrMsgs, MaxErrors)]

\* what performFullValidation can return: { valid, errors, warnings, summary }
ContentValidationResults ==
    [kind : {"contentValidation"}, valid : BOOLEAN,
     errors : SeqsUpTo(ErrMsgs, MaxErrors),
     warnings : SeqsUpTo(WarnMsgs, MaxWarnings),
     hasAccessibilityTests : BOOLEAN, followsTddPattern : BOOLEAN]

\* metadata built as soon as one of the two optional arguments is there
BatchMetadataEither(args) ==
    IF ~Falsy(args, 3) \/ ~Falsy(args, 4)
    THEN [kind |-> "metadata", pair |-> TRUE, issueNumber |-> Arg(args, 3),
          issueTitle |-> Arg(args, 4)]
    ELSE [kind |-> "metadata", pair |-> FALSE, issueNumber |-> "", issueTitle |-> ""]
\* the metadata argument the batch script builds for generateTestContent
BatchMetadata(args) ==
    IF ~Falsy(args, 3) /\ ~Falsy(args, 4)
    THEN [kind |-> "metadata", pair |-> TRUE, issueNumber |-> args[3], issueTitle |-> args[4]]
    ELSE [kind |-> "metadata", pair |-> FALSE, issueNumber |-> "", issueTitle |-> ""]
NoMetadata == [kind |-> "metadata", pair |-> FALSE, issueNumber |-> "", issueTitle |-> ""]

\* generateTestContent fails for an empty component name and for no other input
GeneratorThrows(name) == name = ""
\* generateTestContent: the text is a function of its three arguments
GenerateTestContent(name, req, meta) ==
    [kind |-> "generated", name |-> name, req |-> req, meta |-> meta]

\* the argument vectors the batch generator is started with
BatchArgvs ==
    {<<>>, <<"Foo">>, <<"", "{}">>, <<"Foo", "">>}
    \cup {<<"Foo", j>> : j \in JsonTexts}
    \cup {<<"Foo", j, "7">> : j \in JsonTexts}
    \cup {<<"Foo", j, "7", "Title">> : j \in JsonTexts}
    \cup {<<"Foo", j, "", "Title">> : j \in JsonTexts}

(***************************************************************************)
(* The file system.                                                        *)
(***************************************************************************)
\* path.join(componentsDir, `${componentName}.test.ts`) and `${componentName}.vue`
TestPath(name) == "src/components/" \o name \o ".test.ts"
CompPath(name) == "src/components/" \o name \o ".vue"

\* content of a file that was there before the run
Old == [kind |-> "old"]
EmptyFS == [p \in {} |-> Old]

\* fs.existsSync(path)
ExistsSync(fs, path) == path \in DOMAIN fs
\* the file system after fs.writeFileSync(path, content) succeeded
WriteFileSync(fs, path, content) ==
    [p \in DOMAIN fs \cup {path} |-> IF p = path THEN content ELSE fs[p]]
\* an entry of the write history
Written(by, path, content) == [by |-> by, path |-> path, content |-> content]

\* the file systems a run can start in: any of the two target files of the
\* names may be there already
InitialFileSystems(names) ==
    {[p \in S |-> Old] : S \in SUBSET ({TestPath(n) : n \in names} \cup {CompPath(n) : n \in names})}

(***************************************************************************)
(* The batch generator.                                                    *)
(***************************************************************************)
\* process.exit(code) of the main process
Exit(code) == pc' = "exited" /\ exitCode' = code

\* a forEach that stops after the first element
ItemsFirstOnly(tag, list) ==
    [i \in 1..(IF Len(list) > 0 THEN 1 ELSE 0) |-> Line(tag, Msg(list[i]))]
\* errors.forEach(e => console.error(`  - ${e}`))
Items(tag, list) == [i \in 1..Len(list) |-> Line(tag, Msg(list[i]))]

\* a rejection test with its condition inverted
RequirementsRejectedInverted(v) == v.valid
\* a rejection test that also asks for a non-empty errors list
RequirementsRejectedIfErrors(v) == ~v.valid /\ Len(v.errors) > 0
\* line 20: if (!validation.valid)
RequirementsRejected(v) == ~v.valid

\* a rejection test that treats warnings as errors
ContentRejectedOnWarnings(cv) == ~cv.valid \/ Len(cv.warnings) > 0
\* line 29: if (!contentValidation.valid)
ContentRejected(cv) == ~cv.valid

\* the output without its closing sentinel
SentinelWrappedNoEnd(content) ==
    <<Line("TEST_CONTENT_START", None), Line("content", content)>>
\* lines 39-41: the generated text between the two sentinel lines
SentinelWrapped(content) ==
    <<Line("TEST_CONTENT_START", None), Line("content", content),
      Line("TEST_CONTENT_END", None)>>

\* line 11: if (!componentName || !requirementsJson)
BatchArgsMissing(args) == Falsy(args, 1) \/ Falsy(args, 2)

InitBatch ==
    /\ prog = "batch" /\ pc = "args" /\ exitCode = 0
    /\ argv \in BatchArgvs
    /\ stdout = <<>> /\ stderr = <<>> /\ calls = <<>>
    /\ files = EmptyFS /\ dirExists \in BOOLEAN /\ writes = <<>>
    /\ start = [files |-> files, dirExists |-> dirExists]
    /\ requirements = None /\ validation = None
    /\ testContent = None /\ contentValidation = None
    /\ answers = None /\ hasGitHubCLI = FALSE /\ generateLocal = ""
    /\ rlOpen = FALSE /\ failed = {}
    /\ spc = "idle" /\ sargv = <<>> /\ sexit = 0
    /\ TestIdle

\* lines 10-14: the argument check
BatchArgCheck ==
    /\ prog = "batch" /\ pc = "args"
    /\ IF BatchArgsMissing(argv)
       THEN /\ stderr' = Append(stderr, Line("usage", None))
            /\ Exit(1)
       ELSE /\ pc' = "parse"
            /\ UNCHANGED <<stderr, exitCode>>
    /\ UNCHANGED <<prog, start, argv, stdout, calls, fsVars, batchVars, interVars, scaffVars>>
    /\ UNCHANGED testVars

\* the catch block, lines 48-53
BatchCatch(message) ==
    /\ stderr' = stderr \o <<Line("error_generating", Msg(message)), Line("stack", None)>>
    /\ Exit(1)

\* line 17: JSON.parse(requirementsJson)
BatchParse ==
    /\ prog = "batch" /\ pc = "parse"
    /\ IF JSONParseOk(argv[2])
       THEN /\ requirements' = JSONParse(argv[2])
            /\ pc' = "validate"
            /\ UNCHANGED <<stderr, exitCode>>
       ELSE /\ BatchCatch("json_parse_error")
            /\ UNCHANGED requirements
    /\ UNCHANGED <<prog, start, argv, stdout, calls, fsVars, validation, testContent,
                   contentValidation, interVars, scaffVars>>
    /\ UNCHANGED testVars

\* lines 19-24: validateRequirements and the exit on valid = false
BatchValidateReturning(results) ==
    /\ prog = "batch" /\ pc = "validate"
    /\ \E v \in results :
          /\ validation' = v
          /\ calls' = Append(calls, "validateRequirements")
          /\ IF RequirementsRejected(v)
             THEN /\ stderr' = Append(stderr, Line("invalid_requirements", None))
                                  \o Items("requirements_error", v.errors)
                  /\ Exit(1)
             ELSE /\ pc' = "generate"
                  /\ UNCHANGED <<stderr, exitCode>>
    /\ UNCHANGED <<prog, start, argv, stdout, fsVars, requirements, testContent,
                   contentValidation, interVars, scaffVars>>
    /\ UNCHANGED testVars

\* the call with any result validateRequirements can return
BatchValidate == BatchValidateReturning(ValidationResults)

\* line 26: generateTestContent
BatchGenerate ==
    /\ prog = "batch" /\ pc = "generate"
    /\ calls' = Append(calls, "generateTestContent")
    /\ IF GeneratorThrows(argv[1])
       THEN /\ BatchCatch("generator_error")
            /\ UNCHANGED testContent
       ELSE /\ testContent' = GenerateTestContent(argv[1], requirements, BatchMetadata(argv))
            /\ pc' = "validateContent"
            /\ UNCHANGED <<stderr, exitCode>>
    /\ UNCHANGED <<prog, start, argv, stdout, fsVars, requirements, validation,
                   contentValidation, interVars, scaffVars>>
    /\ UNCHANGED testVars

\* lines 28-33: performFullValidation and the exit on valid = false
BatchValidateContentReturning(results) ==
    /\ prog = "batch" /\ pc = "validateContent"
    /\ \E cv \in results :
          /\ contentValidation' = cv
          /\ calls' = Append(calls, "performFullValidation")
          /\ IF ContentRejected(cv)
             THEN /\ stderr' = Append(stderr, Line("content_errors", None))
                                  \o Items("content_error", cv.errors)
                  /\ Exit(1)
             ELSE /\ pc' = "emit"
                  /\ UNCHANGED <<stderr, exitCode>>
    /\ UNCHANGED <<prog, start, argv, stdout, fsVars, requirements, validation,
                   testContent, interVars, scaffVars>>
    /\ UNCHANGED testVars

\* the call with any result performFullValidation can return
BatchValidateContent == BatchValidateContentReturning(ContentValidationResults)

\* lines 34-46: the warnings, the sentinel-wrapped content, the summary, exit 0
BatchEmit ==
    /\ prog = "batch" /\ pc = "emit"
    /\ stderr' = stderr
          \o (IF Len(contentValidation.warnings) > 0
              THEN <<Line("content_warnings", None)>>
                      \o Items("content_warning", contentValidation.warnings)
              ELSE <<>>)
          \o <<Line("success", None),
               Line("summary", [kind |-> "summary",
                     total |-> Len(contentValidation.errors) + Len(contentValidation.warnings),
                     hasAccessibilityTests |-> contentValidation.hasAccessibilityTests,
                     followsTddPattern |-> contentValidation.followsTddPattern])>>
    /\ stdout' = stdout \o SentinelWrapped(testContent)
    /\ Exit(0)
    /\ UNCHANGED <<prog, start, argv, calls, fsVars, batchVars, interVars, scaffVars>>
    /\ UNCHANGED testVars

NextBatch ==
    \/ BatchArgCheck
    \/ BatchParse
    \/ BatchValidate
    \/ BatchGenerate
    \/ BatchValidateContent
    \/ BatchEmit

(***************************************************************************)
(* The scaffold generator (scripts/create-tdd-component.js).  It runs as a *)
(* program of its own and as the subprocess of the interactive CLI.        *)
(***************************************************************************)
\* process.argv[3] || `Issue: ${componentName} Component`
IssueDescription(args) ==
    IF Falsy(args, 2) THEN "Issue: " \o Arg(args, 1) \o " Component" ELSE args[2]

\* the two templates, with their interpolated values
TestTemplate(name, issueDescription) ==
    [kind |-> "testTemplate", name |-> name, issueDescription |-> issueDescription]
ComponentTemplate(name) == [kind |-> "componentTemplate", name |-> name]

\* process.exit(code) of the scaffold generator
ScaffoldExit(code) == spc' = "exited" /\ sexit' = code

\* the argument vectors the scaffold generator is started with
ScaffoldArgvs == {<<>>, <<"">>, <<"", "Issue #1">>, <<"Foo">>, <<"Foo", "Issue #1">>}

InitScaffold ==
    /\ prog = "scaffold" /\ pc = "scaffold" /\ exitCode = 0
    /\ argv \in ScaffoldArgvs
    /\ stdout = <<>> /\ stderr = <<>> /\ calls = <<>>
    /\ files \in InitialFileSystems({"Foo"})
    /\ dirExists \in BOOLEAN
    /\ (files # EmptyFS => dirExists)
    /\ writes = <<>>
    /\ start = [files |-> files, dirExists |-> dirExists]
    /\ requirements = None /\ validation = None
    /\ testContent = None /\ contentValidation = None
    /\ answers = None /\ hasGitHubCLI = FALSE /\ generateLocal = ""
    /\ rlOpen = FALSE /\ failed = {}
    /\ spc = "args" /\ sargv = argv /\ sexit = 0
    /\ TestIdle

\* the argument check placed after the creation of the directory
ScaffoldArgCheckAfterMkdir ==
    /\ spc = "args"
    /\ dirExists' = TRUE
    /\ IF Falsy(sargv, 1)
       THEN /\ stderr' = Append(stderr, Line("provide_component_name", None))
            /\ stdout' = Append(stdout, Line("scaffold_usage", None))
            /\ ScaffoldExit(1)
       ELSE /\ spc' = "checkTest"
            /\ UNCHANGED <<stdout, stderr, sexit>>
    /\ UNCHANGED <<procVars, calls, files, writes, batchVars, interVars, sargv>>
    /\ UNCHANGED testVars

\* lines 14-20: the argument check
ScaffoldArgCheck ==
    /\ spc = "args"
    /\ IF Falsy(sargv, 1)
       THEN /\ stderr' = Append(stderr, Line("provide_component_name", None))
            /\ stdout' = Append(stdout, Line("scaffold_usage", None))
            /\ ScaffoldExit(1)
       ELSE /\ spc' = "mkdir"
            /\ UNCHANGED <<stdout, stderr, sexit>>
    /\ UNCHANGED <<procVars, calls, fsVars, batchVars, interVars, sargv>>
    /\ UNCHANGED testVars

\* lines 140-142: create the components directory when it is not there
ScaffoldMkdir ==
    /\ spc = "mkdir"
    /\ dirExists' = TRUE
    /\ spc' = "checkTest"
    /\ UNCHANGED <<procVars, ioVars, calls, files, writes, batchVars, interVars,
                   sargv, sexit>>
    /\ UNCHANGED testVars

\* lines 144-147: the test file must not exist
ScaffoldCheckTest ==
    /\ spc = "checkTest"
    /\ IF ExistsSync(files, TestPath(sargv[1]))
       THEN /\ stderr' = Append(stderr, Line("test_file_exists", Msg(TestPath(sargv[1]))))
            /\ ScaffoldExit(1)
       ELSE /\ spc' = "checkComp"
            /\ UNCHANGED <<stderr, sexit>>
    /\ UNCHANGED <<procVars, stdout, calls, fsVars, batchVars, interVars, sargv>>
    /\ UNCHANGED testVars

\* a collision check that looks at the test file only
ScaffoldCheckCompSkipped ==
    /\ spc = "checkComp"
    /\ spc' = "writeTest"
    /\ UNCHANGED <<procVars, ioVars, calls, fsVars, batchVars, interVars, sargv, sexit>>
    /\ UNCHANGED testVars

\* lines 148-151: the component file must not exist
ScaffoldCheckComp ==
    /\ spc = "checkComp"
    /\ IF ExistsSync(files, CompPath(sargv[1]))
       THEN /\ stderr' = Append(stderr, Line("component_file_exists", Msg(CompPath(sargv[1]))))
            /\ ScaffoldExit(1)
       ELSE /\ spc' = "writeTest"
            /\ UNCHANGED <<stderr, sexit>>
    /\ UNCHANGED <<procVars, stdout, calls, fsVars, batchVars, interVars, sargv>>
    /\ UNCHANGED testVars

\* the catch block, lines 168-172
ScaffoldCatch ==
    /\ stderr' = Append(stderr, Line("error_creating_files", None))
    /\ ScaffoldExit(1)

\* a write of the test file whose failure is not caught: the run goes on to the
\* component file
ScaffoldWriteTestUncaught ==
    /\ spc = "writeTest"
    /\ \E ok \in BOOLEAN :
          IF ok
          THEN /\ files' = WriteFileSync(files, TestPath(sargv[1]),
                                         TestTemplate(sargv[1], IssueDescription(sargv)))
               /\ writes' = Append(writes, Written("scaffold", TestPath(sargv[1]),
                                         TestTemplate(sargv[1], IssueDescription(sargv))))
               /\ stdout' = Append(stdout, Line("created_test_file", Msg(TestPath(sargv[1]))))
               /\ UNCHANGED stderr
          ELSE /\ stderr' = Append(stderr, Line("error_creating_files", None))
               /\ UNCHANGED <<files, writes, stdout>>
    /\ spc' = "writeComp"
    /\ UNCHANGED <<procVars, calls, dirExists, batchVars, interVars, sargv, sexit>>
    /\ UNCHANGED testVars

\* lines 155-156: write the test file; writeFileSync can throw
ScaffoldWriteTest ==
    /\ spc = "writeTest"
    /\ \E ok \in BOOLEAN :
          IF ok
          THEN /\ files' = WriteFileSync(files, TestPath(sargv[1]),
                                         TestTemplate(sargv[1], IssueDescription(sargv)))
               /\ writes' = Append(writes, Written("scaffold", TestPath(sargv[1]),
                                         TestTemplate(sargv[1], IssueDescription(sargv))))
               /\ stdout' = Append(stdout, Line("created_test_file", Msg(TestPath(sargv[1]))))
               /\ spc' = "writeComp"
               /\ UNCHANGED <<stderr, sexit>>
          ELSE /\ ScaffoldCatch
               /\ UNCHANGED <<files, writes, stdout>>
    /\ UNCHANGED <<procVars, calls, dirExists, batchVars, interVars, sargv>>
    /\ UNCHANGED testVars

\* lines 158-166: write the component file, print the next steps, end with code 0
ScaffoldWriteComp ==
    /\ spc = "writeComp"
    /\ \E ok \in BOOLEAN :
          IF ok
          THEN /\ files' = WriteFileSync(files, CompPath(sargv[1]), ComponentTemplate(sargv[1]))
               /\ writes' = Append(writes, Written("scaffold", CompPath(sargv[1]),
                                         ComponentTemplate(sargv[1])))
               /\ stdout' = stdout \o <<Line("created_component_file", Msg(CompPath(sargv[1]))),
                                        Line("next_steps", None)>>
               /\ ScaffoldExit(0)
               /\ UNCHANGED stderr
          ELSE /\ ScaffoldCatch
               /\ UNCHANGED <<files, writes, stdout>>
    /\ UNCHANGED <<procVars, calls, dirExists, batchVars, interVars, sargv>>
    /\ UNCHANGED testVars

NextScaffold ==
    \/ ScaffoldArgCheck
    \/ ScaffoldMkdir
    \/ ScaffoldCheckTest
    \/ ScaffoldCheckComp
    \/ ScaffoldWriteTest
    \/ ScaffoldWriteComp

(***************************************************************************)
(* The interactive CLI (async main).                                       *)
(***************************************************************************)
\* String.prototype.toLowerCase on the strings the model uses
ToLowerCase(str) ==
    CASE str = "Y" -> "y"
      [] str = "Foo" -> "foo"
      [] OTHER -> str

\* the answers tried for the final prompt
LocalAnswers == {"y", "Y", "n", "yes", ""}

\* line 182: `[FEATURE] ${componentName} - ${description}`
IssueTitle(a) == "[FEATURE] " \o a.componentName \o " - " \o a.description

\* lines 141-180: the issue body is the template filled with the answers
IssueBody(a) == [kind |-> "issueBody", answers |-> a]

\* lines 211-212: `issue-${componentName}-${timestamp}.md`
IssueFilePath(a) == "issue-" \o a.componentName \o "-<timestamp>.md"
\* lines 214-219
IssueFile(a) == [kind |-> "issueFile", title |-> IssueTitle(a), body |-> IssueBody(a)]

\* lines 246-254: the requirements record handed to generateTestContent
InteractiveRequirements(a) ==
    [kind |-> "requirements",
     userStory |-> "As a " \o a.userType \o ", I want " \o a.feature \o " so that " \o a.benefit,
     acceptanceCriteria |-> a.acceptanceCriteria, happyPath |-> a.happyPath,
     edgeCases |-> a.edgeCases, errorCases |-> a.errorCases,
     props |-> a.props, events |-> a.events]

\* line 243: the words the shell makes of
\*   node scripts/create-tdd-component.js ${componentName} "${issueTitle}"
\* for a name without blanks: an empty name leaves no word behind
ScaffoldCommandArgs(a) ==
    IF a.componentName = "" THEN <<IssueTitle(a)>> ELSE <<a.componentName, IssueTitle(a)>>

\* every answer a run of the prompts can collect; a list is the non-empty
\* lines entered before the first empty line
AnswerSets ==
    [componentName : Names, description : {"d"}, userType : {"user"},
     feature : {"f"}, benefit : {"b"},
     acceptanceCriteria : SeqsUpTo(Criteria, MaxCriteria),
     happyPath : SeqsUpTo(Criteria, MaxCriteria),
     edgeCases : SeqsUpTo(Criteria, MaxCriteria),
     errorCases : SeqsUpTo(Criteria, MaxCriteria),
     props : {""}, events : {""}]

\* main's promise rejects; main().catch(console.error) prints the error and
\* the readline interface stays open
Reject(what) ==
    /\ pc' = "rejected"
    /\ failed' = failed \cup {what}
    /\ stderr' = Append(stderr, Line("uncaught", Msg(what)))

InitInteractive ==
    /\ prog = "interactive" /\ pc = "prompts" /\ exitCode = 0
    /\ argv = <<>>
    /\ stdout = <<>> /\ stderr = <<>> /\ calls = <<>>
    /\ files \in InitialFileSystems({"Foo"})
    /\ dirExists \in BOOLEAN
    /\ (files # EmptyFS => dirExists)
    /\ writes = <<>>
    /\ start = [files |-> files, dirExists |-> dirExists]
    /\ requirements = None /\ validation = None
    /\ testContent = None /\ contentValidation = None
    /\ answers = None /\ hasGitHubCLI = FALSE /\ generateLocal = ""
    /\ rlOpen = TRUE /\ failed = {}
    /\ spc = "idle" /\ sargv = <<>> /\ sexit = 0
    /\ TestIdle

\* lines 100-139: the prompts, answered one after the other
InterPrompts ==
    /\ prog = "interactive" /\ pc = "prompts"
    /\ answers' \in AnswerSets
    /\ stdout' = Append(stdout, Line("banner", None))
    /\ pc' = "probe"
    /\ UNCHANGED <<prog, start, exitCode, argv, stderr, calls, fsVars, batchVars,
                   hasGitHubCLI, generateLocal, rlOpen, failed, scaffVars>>
    /\ UNCHANGED testVars

\* lines 184-192: `gh --version`; a failure is caught and gives false
InterProbe ==
    /\ prog = "interactive" /\ pc = "probe"
    /\ \E ok \in BOOLEAN :
          /\ hasGitHubCLI' = ok
          /\ failed' = IF ok THEN failed ELSE failed \cup {"probe"}
    /\ stdout' = Append(stdout, Line("creating_issue", None))
    /\ pc' = "issue"
    /\ UNCHANGED <<prog, start, exitCode, argv, stderr, calls, fsVars, batchVars,
                   answers, generateLocal, rlOpen, scaffVars>>
    /\ UNCHANGED testVars

\* lines 193-208: `gh issue create`; a failure is caught and logged
InterCreateIssue ==
    /\ prog = "interactive" /\ pc = "issue" /\ hasGitHubCLI
    /\ \E ok \in BOOLEAN :
          IF ok
          THEN /\ stdout' = Append(stdout, Line("issue_created", Msg(IssueTitle(answers))))
               /\ UNCHANGED <<stderr, failed>>
          ELSE /\ stderr' = Append(stderr, Line("error_creating_issue", None))
               /\ failed' = failed \cup {"issueCreate"}
               /\ UNCHANGED stdout
    /\ pc' = "askLocal"
    /\ UNCHANGED <<prog, start, exitCode, argv, calls, fsVars, batchVars,
                   answers, hasGitHubCLI, generateLocal, rlOpen, scaffVars>>
    /\ UNCHANGED testVars

\* lines 209-229: no issue-tracker tool: save the issue to a file
InterSaveIssueFile ==
    /\ prog = "interactive" /\ pc = "issue" /\ ~hasGitHubCLI
    /\ \E ok \in BOOLEAN :
          IF ok
          THEN /\ files' = WriteFileSync(files, IssueFilePath(answers), IssueFile(answers))
               /\ writes' = Append(writes, Written("interactive", IssueFilePath(answers),
                                                   IssueFile(answers)))
               /\ stdout' = Append(stdout, Line("issue_saved", Msg(IssueFilePath(answers))))
               /\ pc' = "askLocal"
               /\ UNCHANGED <<stderr, failed>>
          ELSE /\ Reject("issueFileWrite")
               /\ UNCHANGED <<files, writes, stdout>>
    /\ UNCHANGED <<prog, start, exitCode, argv, calls, dirExists, batchVars,
                   answers, hasGitHubCLI, generateLocal, rlOpen, scaffVars>>
    /\ UNCHANGED testVars

\* a final prompt that takes every answer but 'n' for a yes
InterAskLocalUnlessNo ==
    /\ prog = "interactive" /\ pc = "askLocal"
    /\ \E a \in LocalAnswers :
          /\ generateLocal' = a
          /\ IF ToLowerCase(a) # "n"
             THEN /\ pc' = "branch"
                  /\ stdout' = Append(stdout, Line("generating_local", None))
             ELSE /\ pc' = "close"
                  /\ UNCHANGED stdout
    /\ UNCHANGED <<prog, start, exitCode, argv, stderr, calls, fsVars, batchVars,
                   answers, hasGitHubCLI, rlOpen, failed, scaffVars>>
    /\ UNCHANGED testVars

\* lines 231-232: the final prompt and the test on its lower-cased answer
InterAskLocal ==
    /\ prog = "interactive" /\ pc = "askLocal"
    /\ \E a \in LocalAnswers :
          /\ generateLocal' = a
          /\ IF ToLowerCase(a) = "y"
             THEN /\ pc' = "branch"
                  /\ stdout' = Append(stdout, Line("generating_local", None))
             ELSE /\ pc' = "close"
                  /\ UNCHANGED stdout
    /\ UNCHANGED <<prog, start, exitCode, argv, stderr, calls, fsVars, batchVars,
                   answers, hasGitHubCLI, rlOpen, failed, scaffVars>>
    /\ UNCHANGED testVars

\* `git checkout -b` without its try/catch
InterBranchUncaught ==
    /\ prog = "interactive" /\ pc = "branch"
    /\ \E ok \in BOOLEAN :
          IF ok
          THEN /\ pc' = "runScaffold"
               /\ UNCHANGED <<stderr, failed>>
          ELSE Reject("branch")
    /\ UNCHANGED <<prog, start, exitCode, argv, stdout, calls, fsVars, batchVars,
                   answers, hasGitHubCLI, generateLocal, rlOpen, scaffVars>>
    /\ UNCHANGED testVars

\* lines 235-241: `git checkout -b`; a failure is caught and logged
InterBranch ==
    /\ prog = "interactive" /\ pc = "branch"
    /\ \E ok \in BOOLEAN :
          IF ok
          THEN UNCHANGED <<stdout, failed>>
          ELSE /\ stdout' = Append(stdout, Line("branch_may_exist",
                                   Msg("feature/" \o ToLowerCase(answers.componentName))))
               /\ failed' = failed \cup {"branch"}
    /\ pc' = "runScaffold"
    /\ UNCHANGED <<prog, start, exitCode, argv, stderr, calls, fsVars, batchVars,
                   answers, hasGitHubCLI, generateLocal, rlOpen, scaffVars>>
    /\ UNCHANGED testVars

\* line 243: execSync starts the scaffold generator and waits for it
InterRunScaffold ==
    /\ prog = "interactive" /\ pc = "runScaffold"
    /\ spc' = "args" /\ sargv' = ScaffoldCommandArgs(answers) /\ sexit' = 0
    /\ pc' = "scaffold"
    /\ UNCHANGED <<prog, start, exitCode, argv, ioVars, calls, fsVars, batchVars, interVars>>
    /\ UNCHANGED testVars

\* an execSync that does not throw on a non-zero exit code
InterScaffoldReturnIgnoringExit ==
    /\ prog = "interactive" /\ pc = "scaffold" /\ spc = "exited"
    /\ pc' = "generate"
    /\ UNCHANGED <<prog, start, exitCode, argv, ioVars, calls, fsVars, batchVars,
                   interVars, scaffVars>>
    /\ UNCHANGED testVars

\* line 243: execSync returns, or throws when the exit code is not 0
InterScaffoldReturn ==
    /\ prog = "interactive" /\ pc = "scaffold" /\ spc = "exited"
    /\ IF sexit = 0
       THEN /\ pc' = "generate"
            /\ UNCHANGED <<stderr, failed>>
       ELSE Reject("scaffold")
    /\ UNCHANGED <<prog, start, exitCode, argv, stdout, calls, fsVars, batchVars,
                   answers, hasGitHubCLI, generateLocal, rlOpen, scaffVars>>
    /\ UNCHANGED testVars

\* lines 245-255: build the requirements and call generateTestContent
InterGenerate ==
    /\ prog = "interactive" /\ pc = "generate"
    /\ requirements' = InteractiveRequirements(answers)
    /\ calls' = Append(calls, "generateTestContent")
    /\ IF GeneratorThrows(answers.componentName)
       THEN /\ Reject("generator")
            /\ UNCHANGED testContent
       ELSE /\ testContent' = GenerateTestContent(answers.componentName,
                                  InteractiveRequirements(answers), NoMetadata)
            /\ pc' = "write"
            /\ UNCHANGED <<stderr, failed>>
    /\ UNCHANGED <<prog, start, exitCode, argv, stdout, fsVars, validation, contentValidation,
                   answers, hasGitHubCLI, generateLocal, rlOpen, scaffVars>>
    /\ UNCHANGED testVars

\* lines 256-261: write the generated text over the component's test file
InterWrite ==
    /\ prog = "interactive" /\ pc = "write"
    /\ \E ok \in BOOLEAN :
          IF ok
          THEN /\ files' = WriteFileSync(files, TestPath(answers.componentName), testContent)
               /\ writes' = Append(writes, Written("interactive",
                                      TestPath(answers.componentName), testContent))
               /\ stdout' = Append(stdout, Line("setup_complete", None))
               /\ pc' = "close"
               /\ UNCHANGED <<stderr, failed>>
          ELSE /\ Reject("testFileWrite")
               /\ UNCHANGED <<files, writes, stdout>>
    /\ UNCHANGED <<prog, start, exitCode, argv, calls, dirExists, batchVars,
                   answers, hasGitHubCLI, generateLocal, rlOpen, scaffVars>>
    /\ UNCHANGED testVars

\* line 263: rl.close(); main's promise resolves and the process ends with code 0
InterClose ==
    /\ prog = "interactive" /\ pc = "close"
    /\ rlOpen' = FALSE
    /\ Exit(0)
    /\ UNCHANGED <<prog, start, argv, ioVars, calls, fsVars, batchVars,
                   answers, hasGitHubCLI, generateLocal, failed, scaffVars>>
    /\ UNCHANGED testVars

\* after a rejection nothing closes the readline interface: the process lives
\* until its standard input ends, and then ends with code 0
InterStdinEnd ==
    /\ prog = "interactive" /\ pc = "rejected"
    /\ rlOpen' = FALSE
    /\ Exit(0)
    /\ UNCHANGED <<prog, start, argv, ioVars, calls, fsVars, batchVars,
                   answers, hasGitHubCLI, generateLocal, failed, scaffVars>>
    /\ UNCHANGED testVars

NextInteractive ==
    \/ InterPrompts
    \/ InterProbe
    \/ InterCreateIssue
    \/ InterSaveIssueFile
    \/ InterAskLocal
    \/ InterBranch
    \/ InterRunScaffold
    \/ InterScaffoldReturn
    \/ InterGenerate
    \/ InterWrite
    \/ InterClose
    \/ InterStdinEnd

(***************************************************************************)
(* The specification: one of the three programs is started and runs.       *)
(***************************************************************************)
Init == InitBatch \/ InitScaffold \/ InitInteractive

Next == NextBatch \/ NextScaffold \/ NextInteractive

Spec == Init /\ [][Next]_vars

TypeOK ==
    /\ prog \in {"batch", "scaffold", "interactive"}
    /\ exitCode \in {0, 1}
    /\ sexit \in {0, 1}
    /\ rlOpen \in BOOLEAN

(***************************************************************************)
(* Properties of the batch generator.                                      *)
(***************************************************************************)
Range(seq) == {seq[i] : i \in 1..Len(seq)}
\* the lines of a stream that carry the tag, in order
Tagged(stream, tag) == SelectSeq(stream, LAMBDA l : l.tag = tag)

BatchExited == prog = "batch" /\ pc = "exited"
\* requirementsJson was handed to JSON.parse and is not JSON
BatchJsonInvalid == ~BatchArgsMissing(argv) /\ ~JSONParseOk(argv[2])
\* validateRequirements was called and returned valid = false
BatchRequirementsInvalid == validation.kind = "validation" /\ ~validation.valid
\* performFullValidation was called and returned valid = false
BatchContentInvalid ==
    contentValidation.kind = "contentValidation" /\ ~contentValidation.valid

\* C1: a run of the batch generator ends with exit code 1 when an argument is
\* missing, when requirementsJson is not JSON, when validateRequirements
\* returned valid = false or when performFullValidation returned valid =
\* false, and with exit code 0 in every other run.
C1_BatchExitCode ==
    BatchExited =>
        exitCode = (IF \/ BatchArgsMissing(argv)
                       \/ BatchJsonInvalid
                       \/ BatchRequirementsInvalid
                       \/ BatchContentInvalid
                    THEN 1 ELSE 0)

\* a run that got as far as the content validator and was refused there
C1_Witness == BatchExited /\ exitCode = 1 /\ BatchContentInvalid

\* C2: standard output holds TEST_CONTENT_START, the generated text and
\* TEST_CONTENT_END, in that order and nothing else, exactly in the runs that
\* end with exit code 0; at every other moment of every run it is empty.
C2_SentinelOutput ==
    prog = "batch" =>
        IF pc = "exited" /\ exitCode = 0
        THEN /\ Tags(stdout) = <<"TEST_CONTENT_START", "content", "TEST_CONTENT_END">>
             /\ stdout[2].body = testContent
             /\ testContent.kind = "generated"
        ELSE stdout = <<>>

\* a successful run with its three lines on standard output
C2_Witness == BatchExited /\ exitCode = 0 /\ Len(stdout) = 3

\* the three stages, in the order of the pipeline
Stages == <<"validateRequirements", "generateTestContent", "performFullValidation">>
\* the texts of the lines of the diagnostic stream that carry the tag
Listed(tag) == [i \in 1..Len(Tagged(stderr, tag)) |-> Tagged(stderr, tag)[i].body.text]

\* C3: the stages run in the order requirements validator, generator, content
\* validator, each at most once; the generator runs only after the
\* requirements validator returned valid = true and the content validator only
\* after the generator returned; a validation failure at either stage ends
\* the run with exit code 1 and every reported error on the diagnostic stream.
C3_StageOrder ==
    prog = "batch" =>
        /\ Len(calls) <= Len(Stages)
        /\ calls = SubSeq(Stages, 1, Len(calls))
        /\ Len(calls) >= 2 => validation.valid
        /\ Len(calls) >= 3 => testContent.kind = "generated"
        /\ BatchRequirementsInvalid =>
              /\ pc = "exited" /\ exitCode = 1 /\ Len(calls) = 1
              /\ Listed("requirements_error") = validation.errors
        /\ BatchContentInvalid =>
              /\ pc = "exited" /\ exitCode = 1
              /\ Listed("content_error") = contentValidation.errors

\* a run refused by the requirements validator with two errors to list
C3_Witness ==
    /\ BatchExited /\ BatchRequirementsInvalid
    /\ Len(validation.errors) = 2
    /\ calls = <<"validateRequirements">>

(***************************************************************************)
(* Properties of the scaffold generator and of the interactive CLI.        *)
(***************************************************************************)
\* performFullValidation was called on the content and returned valid = true
ContentChecked ==
    /\ "performFullValidation" \in Range(calls)
    /\ contentValidation.kind = "contentValidation"
    /\ contentValidation.valid

\* C4: in every flow, generated test content is written to a file, printed
\* between the sentinels or reported as complete only after the content
\* validator has checked it and returned valid = true.
C4_ValidatedBeforeWrite ==
    /\ \A i \in 1..Len(writes) : writes[i].content.kind = "generated" => ContentChecked
    /\ Tagged(stdout, "content") # <<>> => ContentChecked
    /\ Tagged(stdout, "setup_complete") # <<>> => ContentChecked

\* the scaffold generator has passed both of its collision checks
ScaffoldChecksDone == spc \in {"writeTest", "writeComp", "exited"} /\ ~Falsy(sargv, 1)
\* the path is the same file, or the same absence of a file, as at the start
Untouched(path) ==
    /\ path \in DOMAIN files <=> path \in DOMAIN start.files
    /\ path \in DOMAIN files => files[path] = start.files[path]
    /\ \A i \in 1..Len(writes) : writes[i].path # path

\* C5: when the test file or the component file of the name exists as the
\* scaffold generator checks, the generator ends with exit code 1, names the
\* conflicting path on the diagnostic stream, and leaves both paths as they
\* were.
C5_NoOverwrite ==
    /\ (spc = "checkComp" /\ ~Falsy(sargv, 1)) => TestPath(sargv[1]) \notin DOMAIN start.files
    /\ ScaffoldChecksDone =>
         LET t == TestPath(sargv[1])
             c == CompPath(sargv[1])
         IN  (t \in DOMAIN start.files \/ c \in DOMAIN start.files) =>
                /\ spc = "exited" /\ sexit = 1
                /\ Untouched(t) /\ Untouched(c)
                /\ IF t \in DOMAIN start.files
                   THEN Listed("test_file_exists") = <<t>>
                   ELSE Listed("component_file_exists") = <<c>>

\* a run stopped by the second check: only the component file was there
C5_Witness ==
    /\ prog = "scaffold" /\ spc = "exited" /\ sexit = 1 /\ ~Falsy(sargv, 1)
    /\ TestPath(sargv[1]) \notin DOMAIN start.files
    /\ CompPath(sargv[1]) \in DOMAIN start.files

\* nothing outside the console has happened since the start
NoEffect ==
    /\ calls = <<>> /\ writes = <<>>
    /\ files = start.files /\ dirExists = start.dirExists

\* C6: with the component name missing, the scaffold generator and the batch
\* generator each end with exit code 1 at their argument check: no directory
\* is created, no file is written, no validator or generator is called.
C6_MissingName ==
    /\ (prog = "batch" /\ Falsy(argv, 1) /\ pc # "args") =>
          pc = "exited" /\ exitCode = 1 /\ NoEffect /\ stdout = <<>>
    /\ (prog = "scaffold" /\ Falsy(sargv, 1) /\ spc # "args") =>
          spc = "exited" /\ sexit = 1 /\ NoEffect

\* the scaffold generator started without arguments where src/components is absent
C6_Witness ==
    /\ prog = "scaffold" /\ sargv = <<>> /\ spc = "exited" /\ sexit = 1
    /\ ~start.dirExists

\* C7: in every flow, an empty component name is reported as an error, no
\* file is written (no issue file, no test file, no component file) and the
\* exit code is not 0.
C7_EmptyName ==
    /\ (prog = "batch" /\ Present(argv, 1) /\ argv[1] = "") =>
          /\ writes = <<>>
          /\ pc = "exited" => (exitCode # 0 /\ stderr # <<>>)
    /\ (prog = "scaffold" /\ Present(sargv, 1) /\ sargv[1] = "") =>
          /\ writes = <<>>
          /\ spc = "exited" => (sexit # 0 /\ stderr # <<>>)
    /\ (prog = "interactive" /\ answers # None /\ answers.componentName = "") =>
          /\ writes = <<>>
          /\ pc = "exited" => (exitCode # 0 /\ stderr # <<>>)

\* the failures that main did not catch: the causes printed by main().catch
UncaughtCauses == {l.body.text : l \in Range(Tagged(stderr, "uncaught"))}
\* the subprocess invocations of the interactive flow
Subprocesses == {"probe", "issueCreate", "branch", "scaffold"}

\* C8 as stated: no failing subprocess invocation (probe, issue creation,
\* branch creation, scaffold generator) ever aborts main.
C8_EverySubprocessFailureContinues ==
    prog = "interactive" => UncaughtCauses \cap Subprocesses = {}

\* C8, amended: a failing probe, issue creation or branch creation is caught
\* (the latter two are logged) and the flow goes on to its next step; a failing
\* scaffold generator is not caught: main rejects, and neither
\* generateTestContent nor the write of the test file happens.
C8_CaughtSubprocessFailures ==
    prog = "interactive" =>
        /\ UncaughtCauses \cap {"probe", "issueCreate", "branch"} = {}
        /\ "issueCreate" \in failed => Tagged(stderr, "error_creating_issue") # <<>>
        /\ "branch" \in failed =>
              /\ Tagged(stdout, "branch_may_exist") # <<>>
              /\ pc # "branch"
        /\ "scaffold" \in failed =>
              /\ pc \in {"rejected", "exited"}
              /\ "scaffold" \in UncaughtCauses
              /\ calls = <<>>
              /\ \A i \in 1..Len(writes) : writes[i].by # "interactive"
                                               \/ writes[i].content.kind # "generated"

\* a run in which issue creation and branch creation failed and which still
\* went on to write the generated tests and to finish
C8_Witness ==
    /\ prog = "interactive" /\ pc = "exited"
    /\ {"issueCreate", "branch"} \subseteq failed
    /\ \E i \in 1..Len(writes) : writes[i].content.kind = "generated"

\* C9: whenever the issue-tracker command fails (the tool is absent, or it is
\* there and `gh issue create` fails), the issue body is written to a local
\* issue file, unless that write fails itself.
C9_IssueFileFallback ==
    (/\ prog = "interactive"
     /\ pc \notin {"prompts", "probe", "issue"}
     /\ ("probe" \in failed \/ "issueCreate" \in failed)
     /\ "issueFileWrite" \notin failed)
    => \E i \in 1..Len(writes) : writes[i].content.kind = "issueFile"

\* C10: the interactive CLI ends with exit code 0 when main completed and
\* with another exit code when main met an error it did not catch.
C10_InteractiveExitCode ==
    (prog = "interactive" /\ pc = "exited") =>
        (exitCode = 0 <=> UncaughtCauses = {})

(***************************************************************************)
(* Further properties of the batch generator.                              *)
(***************************************************************************)
\* C11: generateTestContent receives { issueNumber, issueTitle } exactly when
\* both optional arguments are non-empty, and an empty metadata record when
\* either is missing: the metadata never carries one of the two alone.
C11_MetadataPair ==
    (prog = "batch" /\ testContent.kind = "generated") =>
        /\ testContent.meta.pair <=> (~Falsy(argv, 3) /\ ~Falsy(argv, 4))
        /\ testContent.meta.pair =>
              /\ testContent.meta.issueNumber = argv[3]
              /\ testContent.meta.issueTitle = argv[4]
        /\ ~testContent.meta.pair =>
              /\ testContent.meta.issueNumber = ""
              /\ testContent.meta.issueTitle = ""

\* the generator was called with an issue title and an empty issue number
C11_Witness ==
    /\ prog = "batch" /\ testContent.kind = "generated"
    /\ Len(argv) = 4 /\ argv[3] = "" /\ argv[4] # ""
    /\ ~testContent.meta.pair

\* performFullValidation returned valid = true together with warnings
BatchContentWarned ==
    /\ contentValidation.kind = "contentValidation"
    /\ contentValidation.valid
    /\ Len(contentValidation.warnings) > 0

\* C12: when performFullValidation returns valid = true with warnings, the
\* run goes on: every warning is listed on the diagnostic stream, the
\* sentinel-wrapped content is written and the exit code is 0.
C12_WarningsNotFatal ==
    (prog = "batch" /\ BatchContentWarned) =>
        /\ pc \in {"emit", "exited"}
        /\ pc = "exited" =>
              /\ exitCode = 0
              /\ Listed("content_warning") = contentValidation.warnings
              /\ Tags(stdout) = <<"TEST_CONTENT_START", "content", "TEST_CONTENT_END">>
              /\ stdout[2].body = testContent

\* a finished run whose content validation carried a warning
C12_Witness == BatchExited /\ BatchContentWarned /\ exitCode = 0

(***************************************************************************)
(* The text the generator produces, after the generated test file of the   *)
(* repository (UserProfile.test.ts), and the two validators of the         *)
(* test-generator package as they are specified.                           *)
(***************************************************************************)
\* a line of a test file: what kind of line it is and its text
TextLine(kind, text) == [kind |-> kind, text |-> text]

\* an assertion that passes
GreenAssertion == TextLine("expect", "expect(true).toBe(true)")
\* expect(true).toBe(false); // Red phase - this should fail
RedAssertion == TextLine("expect", "expect(true).toBe(false)")

\* a suite named after the component alone
SuiteLineBare(name) == TextLine("suite", name)
\* describe('<componentName> Component', () => {
SuiteLine(name) == TextLine("suite", name \o " Component")

\* the header comment: the issue when the metadata names it
HeaderComment(name, meta) ==
    IF meta.pair
    THEN TextLine("comment", "GitHub Issue #" \o meta.issueNumber \o ": " \o meta.issueTitle)
    ELSE TextLine("comment", name \o " Component Tests")

\* one test of the Acceptance Criteria group
AcceptanceTest(criterion) ==
    <<TextLine("it", "should " \o ToLowerCase(criterion)),
      TextLine("comment", "Acceptance Criteria: " \o criterion),
      RedAssertion>>

RECURSIVE AcceptanceTests(_)
\* the tests of the Acceptance Criteria group, one per criterion
AcceptanceTests(criteria) ==
    IF criteria = <<>> THEN <<>>
    ELSE AcceptanceTest(Head(criteria)) \o AcceptanceTests(Tail(criteria))

\* an Accessibility group under another title
AccessibilityGroupRetitled ==
    <<TextLine("group", "A11y"),
      TextLine("it", "should be accessible to screen readers"), RedAssertion,
      TextLine("it", "should be keyboard navigable"), RedAssertion>>
\* an Accessibility group that lost its second test
AccessibilityGroupScreenReaderOnly ==
    <<TextLine("group", "Accessibility"),
      TextLine("it", "should be accessible to screen readers"), RedAssertion>>
\* describe('Accessibility') with its two fixed tests
AccessibilityGroup ==
    <<TextLine("group", "Accessibility"),
      TextLine("it", "should be accessible to screen readers"), RedAssertion,
      TextLine("it", "should be keyboard navigable"), RedAssertion>>

\* the whole file: header, imports, suite, the two groups
GeneratedText(name, req, meta) ==
    <<HeaderComment(name, meta), TextLine("import", "./" \o name \o ".vue"), SuiteLine(name),
      TextLine("group", "Acceptance Criteria")>>
    \o AcceptanceTests(req.acceptanceCriteria)
    \o AccessibilityGroup

\* the text of a value returned by generateTestContent
TextOf(content) == GeneratedText(content.name, content.req, content.meta)

\* the lines of a text of one kind, in order
LinesOf(text, kind) == SelectSeq(text, LAMBDA l : l.kind = kind)

\* validateRequirements: nothing to generate tests from is an error
NothingToTest(req) ==
    /\ req.acceptanceCriteria = <<>> /\ req.happyPath = <<>>
    /\ req.edgeCases = <<>> /\ req.errorCases = <<>>
RequirementsErrors(req) ==
    IF NothingToTest(req) THEN <<"no acceptance criteria or scenarios">> ELSE <<>>
ValidateRequirements(req) ==
    [kind |-> "validation", valid |-> RequirementsErrors(req) = <<>>,
     errors |-> RequirementsErrors(req)]

\* performFullValidation: the markers looked for in the text
HasSuiteFor(text, name) ==
    \E i \in 1..Len(text) : text[i].kind = "suite" /\ text[i].text = name \o " Component"
HasAccessibilityTests(text) ==
    \E i \in 1..Len(text) : text[i].kind = "group" /\ text[i].text = "Accessibility"
FollowsTddPattern(text) ==
    \E i \in 1..Len(text) :
        text[i].kind = "expect" /\ text[i].text = "expect(true).toBe(false)"
ContentErrors(text, name) ==
    (IF HasSuiteFor(text, name) THEN <<>> ELSE <<"missing suite declaration">>)
    \o (IF LinesOf(text, "it") = <<>> THEN <<"no test cases">> ELSE <<>>)
ContentWarnings(text) ==
    (IF HasAccessibilityTests(text) THEN <<>> ELSE <<"no accessibility section">>)
    \o (IF FollowsTddPattern(text) THEN <<>> ELSE <<"no failing assertion">>)
PerformFullValidation(text, name) ==
    [kind |-> "contentValidation",
     valid |-> ContentErrors(text, name) = <<>>,
     errors |-> ContentErrors(text, name),
     warnings |-> ContentWarnings(text),
     hasAccessibilityTests |-> HasAccessibilityTests(text),
     followsTddPattern |-> FollowsTddPattern(text)]

(***************************************************************************)
(* The programs with the two validators as specified: the batch generator  *)
(* validates what it parsed and what the generator returned.               *)
(***************************************************************************)
\* lines 19-24 with the specified validateRequirements
PipelineValidate == BatchValidateReturning({ValidateRequirements(requirements)})

\* lines 28-33 with the specified performFullValidation
PipelineValidateContent ==
    BatchValidateContentReturning({PerformFullValidation(TextOf(testContent), argv[1])})

InitPipeline == InitBatch \/ InitInteractive

NextPipeline ==
    \/ BatchArgCheck
    \/ BatchParse
    \/ PipelineValidate
    \/ BatchGenerate
    \/ PipelineValidateContent
    \/ BatchEmit
    \/ NextScaffold
    \/ NextInteractive

SpecPipeline == InitPipeline /\ [][NextPipeline]_vars

(***************************************************************************)
(* Properties of the generator and of the validators.                      *)
(***************************************************************************)
\* the content validator's verdict on the content the state holds
VerdictOnContent == PerformFullValidation(TextOf(testContent), testContent.name)
Generated == testContent.kind = "generated"
\* the batch generator has called performFullValidation
BatchContentValidated == prog = "batch" /\ contentValidation.kind = "contentValidation"

\* C14: performFullValidation applied to the output of generateTestContent
\* for the same component name returns valid = true with no errors, so the
\* batch generator never leaves through its content-validation failure branch.
C14_RoundTrip ==
    /\ Generated => (VerdictOnContent.valid /\ VerdictOnContent.errors = <<>>)
    /\ BatchContentValidated =>
          /\ contentValidation.valid /\ contentValidation.errors = <<>>
          /\ Tagged(stderr, "content_errors") = <<>>
          /\ pc \in {"emit", "exited"}
          /\ pc = "exited" => exitCode = 0

\* a batch run that validated the text generated for two acceptance criteria
C14_Witness ==
    /\ BatchContentValidated /\ pc = "exited"
    /\ Len(requirements.acceptanceCriteria) = 2
    /\ contentValidation = VerdictOnContent

\* the batch generator has called validateRequirements
BatchRequirementsValidated == prog = "batch" /\ validation.kind = "validation"

\* C15: for requirements whose acceptanceCriteria and three scenario lists are
\* all empty, validateRequirements returns valid = false with at least one
\* error, and the batch generator generates nothing: it ends with exit code 1
\* before generateTestContent and with nothing on standard output.
C15_NothingToTest ==
    (BatchRequirementsValidated /\ NothingToTest(requirements)) =>
        /\ ~validation.valid
        /\ Len(validation.errors) >= 1
        /\ pc = "exited" /\ exitCode = 1
        /\ calls = <<"validateRequirements">>
        /\ testContent = None
        /\ stdout = <<>>

\* a batch run on the requirements text {}
C15_Witness ==
    /\ BatchRequirementsValidated /\ NothingToTest(requirements)
    /\ argv[2] = "{}" /\ pc = "exited"

\* the place of the Accessibility group line in a text (0 when there is none)
AccessibilityAt(text) ==
    IF HasAccessibilityTests(text)
    THEN CHOOSE i \in 1..Len(text) : text[i].kind = "group" /\ text[i].text = "Accessibility"
    ELSE 0
\* the titles of the tests among the lines lo..hi of a text
TestTitles(text, lo, hi) ==
    LET its == LinesOf(SubSeq(text, lo, hi), "it")
    IN  [i \in 1..Len(its) |-> its[i].text]

\* C16: the generated suite holds one test per acceptance criterion, in
\* order, in the Acceptance Criteria group, and the two fixed tests of the
\* Accessibility group; with no acceptance criteria the two accessibility
\* tests are all the tests there are.
C16_TestsPerCriterion ==
    Generated =>
        LET text == TextOf(testContent)
            ac == testContent.req.acceptanceCriteria
            a == AccessibilityAt(text)
        IN  /\ a > 0
            /\ TestTitles(text, 1, a - 1) = [i \in 1..Len(ac) |-> "should " \o ToLowerCase(ac[i])]
            /\ TestTitles(text, a + 1, Len(text)) =
                  <<"should be accessible to screen readers", "should be keyboard navigable">>
            /\ Len(LinesOf(text, "it")) = Len(ac) + 2
            /\ Len(LinesOf(text, "group")) = 2

\* content generated by the interactive flow for requirements with no list filled
C16_Witness ==
    /\ Generated /\ prog = "interactive"
    /\ NothingToTest(testContent.req)
    /\ Len(LinesOf(TextOf(testContent), "it")) = 2

\* C17: for every output of generateTestContent the content validator's
\* summary flag hasAccessibilityTests is true.
C17_HasAccessibilityTests ==
    /\ Generated => VerdictOnContent.hasAccessibilityTests
    /\ BatchContentValidated => contentValidation.hasAccessibilityTests

\* the batch generator printed its summary for content without acceptance criteria
C17_Witness ==
    /\ BatchContentValidated /\ pc = "exited"
    /\ requirements.acceptanceCriteria = <<>>
    /\ Tagged(stderr, "summary")[1].body.hasAccessibilityTests

\* the test at line i of the text ends in a failing placeholder assertion
RedTest(text, i) ==
    \E j \in (i + 1)..Len(text) :
        /\ text[j] = TextLine("expect", "expect(true).toBe(false)")
        /\ \A k \in (i + 1)..(j - 1) : text[k].kind \notin {"it", "expect"}

\* C18: for every output of generateTestContent, with or without acceptance
\* criteria, the summary flag followsTddPattern is true, and every generated
\* test is a deliberately failing placeholder.
C18_FollowsTddPattern ==
    /\ Generated =>
          /\ VerdictOnContent.followsTddPattern
          /\ \A i \in 1..Len(TextOf(testContent)) :
                TextOf(testContent)[i].kind = "it" => RedTest(TextOf(testContent), i)
    /\ BatchContentValidated => contentValidation.followsTddPattern

\* the batch generator validated content generated from scenarios only
C18_Witness ==
    /\ BatchContentValidated /\ contentValidation.followsTddPattern
    /\ requirements.acceptanceCriteria = <<>>
    /\ requirements.happyPath # <<>>

(***************************************************************************)
(* Termination of the interactive CLI and the two files of the scaffold    *)
(* generator.                                                              *)
(***************************************************************************)
\* the steps the programs take by themselves once every prompt is answered;
\* the end of standard input is the user's step and is not among them
ProgramSteps ==
    \/ NextBatch
    \/ NextScaffold
    \/ InterPrompts \/ InterProbe \/ InterCreateIssue \/ InterSaveIssueFile
    \/ InterAskLocal \/ InterBranch \/ InterRunScaffold \/ InterScaffoldReturn
    \/ InterGenerate \/ InterWrite \/ InterClose

\* every program keeps taking its steps while it has one to take
SpecFair == Init /\ [][Next]_vars /\ WF_vars(ProgramSteps)

\* C19: in every run of the interactive CLI in which the prompts are answered,
\* on every path through main, the line-input interface is eventually closed.
C19_ReadlineEventuallyClosed ==
    (prog = "interactive" /\ rlOpen) ~> ~rlOpen

\* the scaffold generator's run wrote the path
CreatedByScaffold(path) ==
    \E i \in 1..Len(writes) : writes[i].by = "scaffold" /\ writes[i].path = path

\* C20: after any run of the scaffold generator either both the test file and
\* the component file were created by it and the exit code is 0, or neither
\* was created by it and the exit code is 1.
C20_BothFilesOrNone ==
    (spc = "exited" /\ ~Falsy(sargv, 1)) =>
        \/ /\ sexit = 0
           /\ CreatedByScaffold(TestPath(sargv[1]))
           /\ CreatedByScaffold(CompPath(sargv[1]))
        \/ /\ sexit = 1
           /\ ~CreatedByScaffold(TestPath(sargv[1]))
           /\ ~CreatedByScaffold(CompPath(sargv[1]))

(***************************************************************************)
(* Two invocations of the scaffold generator running at the same time on   *)
(* one file system.  The first is the process of spc / sargv / sexit; the  *)
(* second runs the same script, with pc its position, argv its arguments   *)
(* and exitCode its exit code.  stdout and stderr are the first one's      *)
(* streams; the second one's console is its own and is not kept.           *)
(***************************************************************************)
\* process.exit(code) of the second invocation
SecondExit(code) == pc' = "exited" /\ exitCode' = code

\* lines 14-20: the argument check
SecondArgCheck ==
    /\ prog = "concurrent" /\ pc = "args"
    /\ IF Falsy(argv, 1) THEN SecondExit(1) ELSE pc' = "mkdir" /\ UNCHANGED exitCode
    /\ UNCHANGED <<prog, argv, start, ioVars, calls, fsVars, batchVars, interVars, scaffVars>>
    /\ UNCHANGED testVars

\* lines 140-142: create the components directory when it is not there
SecondMkdir ==
    /\ prog = "concurrent" /\ pc = "mkdir"
    /\ dirExists' = TRUE
    /\ pc' = "checkTest"
    /\ UNCHANGED <<prog, exitCode, argv, start, ioVars, calls, files, writes,
                   batchVars, interVars, scaffVars>>
    /\ UNCHANGED testVars

\* lines 144-147: the test file must not exist
SecondCheckTest ==
    /\ prog = "concurrent" /\ pc = "checkTest"
    /\ IF ExistsSync(files, TestPath(argv[1]))
       THEN SecondExit(1)
       ELSE pc' = "checkComp" /\ UNCHANGED exitCode
    /\ UNCHANGED <<prog, argv, start, ioVars, calls, fsVars, batchVars, interVars, scaffVars>>
    /\ UNCHANGED testVars

\* lines 148-151: the component file must not exist
SecondCheckComp ==
    /\ prog = "concurrent" /\ pc = "checkComp"
    /\ IF ExistsSync(files, CompPath(argv[1]))
       THEN SecondExit(1)
       ELSE pc' = "writeTest" /\ UNCHANGED exitCode
    /\ UNCHANGED <<prog, argv, start, ioVars, calls, fsVars, batchVars, interVars, scaffVars>>
    /\ UNCHANGED testVars

\* lines 155-156: write the test file; writeFileSync can throw (catch, 168-172)
SecondWriteTest ==
    /\ prog = "concurrent" /\ pc = "writeTest"
    /\ \E ok \in BOOLEAN :
          IF ok
          THEN /\ files' = WriteFileSync(files, TestPath(argv[1]),
                                         TestTemplate(argv[1], IssueDescription(argv)))
               /\ writes' = Append(writes, Written("second", TestPath(argv[1]),
                                         TestTemplate(argv[1], IssueDescription(argv))))
               /\ pc' = "writeComp"
               /\ UNCHANGED exitCode
          ELSE /\ SecondExit(1)
               /\ UNCHANGED <<files, writes>>
    /\ UNCHANGED <<prog, argv, start, ioVars, calls, dirExists, batchVars, interVars, scaffVars>>
    /\ UNCHANGED testVars

\* lines 158-166: write the component file and end with code 0
SecondWriteComp ==
    /\ prog = "concurrent" /\ pc = "writeComp"
    /\ \E ok \in BOOLEAN :
          IF ok
          THEN /\ files' = WriteFileSync(files, CompPath(argv[1]), ComponentTemplate(argv[1]))
               /\ writes' = Append(writes, Written("second", CompPath(argv[1]),
                                         ComponentTemplate(argv[1])))
               /\ SecondExit(0)
          ELSE /\ SecondExit(1)
               /\ UNCHANGED <<files, writes>>
    /\ UNCHANGED <<prog, argv, start, ioVars, calls, dirExists, batchVars, interVars, scaffVars>>
    /\ UNCHANGED testVars

NextSecond ==
    \/ SecondArgCheck
    \/ SecondMkdir
    \/ SecondCheckTest
    \/ SecondCheckComp
    \/ SecondWriteTest
    \/ SecondWriteComp

\* both invocations are started, each with its own arguments
InitConcurrent ==
    /\ prog = "concurrent" /\ pc = "args" /\ exitCode = 0
    /\ argv \in ScaffoldArgvs
    /\ stdout = <<>> /\ stderr = <<>> /\ calls = <<>>
    /\ files \in InitialFileSystems({"Foo"})
    /\ dirExists \in BOOLEAN
    /\ (files # EmptyFS => dirExists)
    /\ writes = <<>>
    /\ start = [files |-> files, dirExists |-> dirExists]
    /\ requirements = None /\ validation = None
    /\ testContent = None /\ contentValidation = None
    /\ answers = None /\ hasGitHubCLI = FALSE /\ generateLocal = ""
    /\ rlOpen = FALSE /\ failed = {}
    /\ spc = "args" /\ sargv \in ScaffoldArgvs /\ sexit = 0
    /\ TestIdle

\* the steps of the two processes interleave in any order
NextConcurrent == NextScaffold \/ NextSecond

SpecConcurrent == InitConcurrent /\ [][NextConcurrent]_vars

(***************************************************************************)
(* Properties of the scaffold generator, continued.                        *)
(***************************************************************************)
\* the invocations that wrote a file
Writers == {writes[i].by : i \in 1..Len(writes)}

\* C21: when two invocations with the same component name run concurrently,
\* at most one of them writes the test file and the component file, and no
\* invocation writes over a file that the other invocation created.
C21_NoOverwriteUnderInterleaving ==
    (~Falsy(sargv, 1) /\ ~Falsy(argv, 1) /\ sargv[1] = argv[1]) =>
        /\ Cardinality(Writers) <= 1
        /\ \A i, j \in 1..Len(writes) :
              (i < j /\ writes[i].path = writes[j].path) => writes[i].by = writes[j].by

\* the index in the write history of the scaffold generator's write of the path
\* (0 when it did not write it)
ScaffoldWriteAt(path) ==
    IF CreatedByScaffold(path)
    THEN CHOOSE i \in 1..Len(writes) : writes[i].by = "scaffold" /\ writes[i].path = path
    ELSE 0

\* C22: whenever the component file has been created by the run of the
\* scaffold generator, the test file was created by the same run before it,
\* and a failed write of the test file prevents the write of the component file.
C22_TestFileFirst ==
    ~Falsy(sargv, 1) =>
        /\ CreatedByScaffold(CompPath(sargv[1])) =>
              /\ CreatedByScaffold(TestPath(sargv[1]))
              /\ ScaffoldWriteAt(TestPath(sargv[1])) < ScaffoldWriteAt(CompPath(sargv[1]))
        /\ (Tagged(stderr, "error_creating_files") # <<>> /\ ~CreatedByScaffold(TestPath(sargv[1])))
              => (spc = "exited" /\ sexit = 1 /\ ~CreatedByScaffold(CompPath(sargv[1])))

C22_Witness ==
    /\ ~Falsy(sargv, 1)
    /\ spc = "exited"
    /\ CreatedByScaffold(TestPath(sargv[1]))
    /\ CreatedByScaffold(CompPath(sargv[1]))

(***************************************************************************)
(* Properties of the interactive CLI, continued.                           *)
(***************************************************************************)
\* the positions of main inside the body of `if (generateLocal.toLowerCase() === 'y')`
LocalSetupSteps == {"branch", "runScaffold", "scaffold", "generate", "write"}

\* the local setup was entered: one of its steps is the position of main or
\* left its trace
LocalSetupEntered ==
    \/ pc \in LocalSetupSteps
    \/ Tagged(stdout, "generating_local") # <<>>
    \/ Tagged(stdout, "branch_may_exist") # <<>> \/ "branch" \in failed
    \/ spc # "idle"
    \/ "generateTestContent" \in Range(calls)
    \/ testContent # None
    \/ Tagged(stdout, "setup_complete") # <<>>

\* C23: in the interactive flow the branch creation, the scaffold-generator
\* subprocess, generateTestContent and the write of the test file happen only
\* when the answer to the final prompt, lower-cased, is exactly 'y'; for every
\* other answer none of them happens and no component or test file is created
\* or changed.
C23_LocalSetupGated ==
    (prog = "interactive" /\ ToLowerCase(generateLocal) # "y") =>
        /\ ~LocalSetupEntered
        /\ dirExists = start.dirExists
        /\ \A n \in Names : Untouched(TestPath(n)) /\ Untouched(CompPath(n))
        /\ \A i \in 1..Len(writes) : writes[i].content.kind = "issueFile"

C23_Witness ==
    /\ prog = "interactive" /\ pc = "exited"
    /\ generateLocal = "yes"
    /\ ~LocalSetupEntered

StringValue(s) == [type |-> "string", s |-> s]
NumberValue(n) == [type |-> "number", n |-> n]
Keys == {"k1", "k2"}
Values == {StringValue(""), StringValue("a"), NumberValue(0), NumberValue(1)}

\* value.toString()
ValueToString(v) ==
    IF v.type = "string" THEN v.s
    ELSE CASE v.n = 0 -> "0" [] v.n = 1 -> "1"

\* what a reading of the mock returns
JsNull == [type |-> "null"]
JsString(s) == [type |-> "string", value |-> s]

\* lines 101-107: both names are defined with the one localStorageMock object
StorageNames == {"localStorage", "sessionStorage"}

\* delete store[key]
Delete(st, key) == [k \in DOMAIN st \ {key} |-> st[k]]
\* store[key] = text
Assign(st, key, text) == [k \in DOMAIN st \cup {key} |-> IF k = key THEN text ELSE st[k]]

\* line 81: store[key] || null; the empty string is falsy
GetItem(st, key) ==
    IF key \in DOMAIN st /\ st[key] # "" THEN JsString(st[key]) ELSE JsNull

\* lines 91-93: Object.keys(store).length
Length(st) == Cardinality(DOMAIN st)

InTest == phase \in {"first", "later"}

\* no command-line program runs
CliIdle ==
    /\ prog = "test" /\ pc = "idle" /\ exitCode = 0 /\ argv = <<>>
    /\ stdout = <<>> /\ stderr = <<>> /\ calls = <<>>
    /\ files = EmptyFS /\ dirExists = FALSE /\ writes = <<>>
    /\ start = [files |-> EmptyFS, dirExists |-> FALSE]
    /\ requirements = None /\ validation = None
    /\ testContent = None /\ contentValidation = None
    /\ answers = None /\ hasGitHubCLI = FALSE /\ generateLocal = ""
    /\ rlOpen = FALSE /\ failed = {}
    /\ spc = "idle" /\ sargv = <<>> /\ sexit = 0

\* the set-up file has run and the first test begins
InitStorage ==
    /\ phase = "first" /\ store = EmptyStore /\ stored = EmptyStore
    /\ innerHTML = "" /\ mocksCalled = FALSE /\ got = None
    /\ CliIdle /\ ComposableIdle /\ WaitForIdle /\ RenderIdle /\ AriaIdle

\* lines 82-84: setItem(key, value)
SetItem ==
    /\ InTest
    /\ \E name \in StorageNames, key \in Keys, value \in Values :
          /\ store' = Assign(store, key, ValueToString(value))
          /\ stored' = [k \in DOMAIN stored \cup {key} |-> IF k = key THEN value ELSE stored[k]]
          /\ got' = [op |-> "setItem", name |-> name, key |-> key]
    /\ UNCHANGED <<phase, innerHTML, mocksCalled>>
    /\ UNCHANGED storageFrame

\* lines 85-87: removeItem(key)
RemoveItem ==
    /\ InTest
    /\ \E name \in StorageNames, key \in Keys :
          /\ store' = Delete(store, key)
          /\ stored' = Delete(stored, key)
          /\ got' = [op |-> "removeItem", name |-> name, key |-> key]
    /\ UNCHANGED <<phase, innerHTML, mocksCalled>>
    /\ UNCHANGED storageFrame

\* lines 88-90: clear()
Clear ==
    /\ InTest
    /\ \E name \in StorageNames :
          /\ store' = EmptyStore
          /\ got' = [op |-> "clear", name |-> name]
    /\ stored' = EmptyStore
    /\ UNCHANGED <<phase, innerHTML, mocksCalled>>
    /\ UNCHANGED storageFrame

\* line 81: a test calls getItem(key)
CallGetItem ==
    /\ InTest
    /\ \E name \in StorageNames, key \in Keys :
          got' = [op |-> "getItem", name |-> name, key |-> key, result |-> GetItem(store, key)]
    /\ UNCHANGED <<phase, store, stored, innerHTML, mocksCalled>>
    /\ UNCHANGED storageFrame

\* lines 91-93: a test reads length
ReadLength ==
    /\ InTest
    /\ \E name \in StorageNames :
          got' = [op |-> "length", name |-> name, result |-> Length(store)]
    /\ UNCHANGED <<phase, store, stored, innerHTML, mocksCalled>>
    /\ UNCHANGED storageFrame

\* a test renders a component into the document
RenderIntoBody ==
    /\ InTest
    /\ innerHTML' = "<div></div>"
    /\ UNCHANGED <<phase, store, stored, mocksCalled, got>>
    /\ UNCHANGED storageFrame

\* a test calls one of the vi.fn() mocks of the set-up (window.scrollTo, line 110)
CallMock ==
    /\ InTest
    /\ mocksCalled' = TRUE
    /\ UNCHANGED <<phase, store, stored, innerHTML, got>>
    /\ UNCHANGED storageFrame

\* a hook that clears the mocks and nothing else
AfterEachMocksOnly ==
    /\ InTest
    /\ mocksCalled' = FALSE
    /\ phase' = "cleaned"
    /\ UNCHANGED <<store, stored, innerHTML, got>>
    /\ UNCHANGED storageFrame

\* lines 138-148: vi.clearAllMocks(); localStorage.clear(); sessionStorage.clear();
\* document.body.innerHTML = ''
AfterEach ==
    /\ InTest
    /\ mocksCalled' = FALSE
    /\ store' = EmptyStore /\ stored' = EmptyStore
    /\ innerHTML' = ""
    /\ phase' = "cleaned"
    /\ UNCHANGED got
    /\ UNCHANGED storageFrame

\* the next test begins
BeginTest ==
    /\ phase = "cleaned"
    /\ phase' = "later"
    /\ got' = None
    /\ UNCHANGED <<store, stored, innerHTML, mocksCalled>>
    /\ UNCHANGED storageFrame

NextStorage ==
    \/ SetItem
    \/ RemoveItem
    \/ Clear
    \/ CallGetItem
    \/ ReadLength
    \/ RenderIntoBody
    \/ CallMock
    \/ AfterEach
    \/ BeginTest

SpecStorage == InitStorage /\ [][NextStorage]_vars

(***************************************************************************)
(* Properties of the storage mock and of the cleanup hook.                 *)
(***************************************************************************)
\* C25: after setItem(k, v) with no later removeItem(k) or clear(), getItem(k)
\* returns the string form of v, for every key and every value, the empty
\* string included; getItem returns null only for keys that are not stored;
\* and length is the number of distinct stored keys.
C25_StorageRoundTrip ==
    /\ \A key \in Keys :
          /\ key \in DOMAIN stored => GetItem(store, key) = JsString(ValueToString(stored[key]))
          /\ GetItem(store, key) = JsNull => key \notin DOMAIN stored
    /\ (got # None /\ got.op = "getItem" /\ got.key \in DOMAIN stored)
          => got.result = JsString(ValueToString(stored[got.key]))
    /\ (got # None /\ got.op = "getItem" /\ got.result = JsNull) => got.key \notin DOMAIN stored
    /\ Length(store) = Cardinality(DOMAIN stored)
    /\ (got # None /\ got.op = "length") => got.result = Cardinality(DOMAIN stored)

ComposableFns == {"testComposable", "testComposableWithProvide"}
\* what a testFn can do: return, throw, return a promise that resolves or rejects
TestFnPlans == {"returns", "throws", "resolves", "rejects"}

\* wrapper.unmount() (cleanup, line 51; lines 116, 118, 120)
Unmount ==
    /\ unmounts' = unmounts + 1
    /\ unmountedEarly' = (unmountedEarly \/ ~tcFinished)

\* a call of one of the two functions begins
InitComposable ==
    /\ tcFn \in ComposableFns /\ tcPlan \in TestFnPlans
    /\ tcPc = "mount" /\ unmounts = 0
    /\ tcFinished = FALSE /\ unmountedEarly = FALSE /\ tcOutcome = "none"

\* lines 39-49 (97-111): define the component and mount it
TcMount ==
    /\ tcPc = "mount"
    /\ tcPc' = "callTestFn"
    /\ UNCHANGED <<tcFn, tcPlan, unmounts, tcFinished, unmountedEarly, tcOutcome>>
    /\ UNCHANGED composableFrame

\* lines 55-58 (114-117): testFn(result) and the test on its result; a promise
\* is handed back with the cleanup attached by finally
TcCallTestFn ==
    /\ tcPc = "callTestFn"
    /\ CASE tcPlan = "returns" -> tcPc' = "cleanup" /\ tcFinished' = TRUE /\ UNCHANGED tcOutcome
         [] tcPlan = "throws" -> tcPc' = "catch" /\ tcFinished' = TRUE /\ UNCHANGED tcOutcome
         [] OTHER -> tcPc' = "pending" /\ tcOutcome' = "promise" /\ UNCHANGED tcFinished
    /\ UNCHANGED <<tcFn, tcPlan, unmounts, unmountedEarly>>
    /\ UNCHANGED composableFrame

\* a synchronous path that returns without the cleanup
TcCleanupSkipped ==
    /\ tcPc = "cleanup"
    /\ tcPc' = "done" /\ tcOutcome' = "undefined"
    /\ UNCHANGED <<tcFn, tcPlan, unmounts, tcFinished, unmountedEarly>>
    /\ UNCHANGED composableFrame

\* line 59 (118): testFn returned no promise: cleanup, and the function returns
TcCleanup ==
    /\ tcPc = "cleanup"
    /\ Unmount
    /\ tcPc' = "done" /\ tcOutcome' = "undefined"
    /\ UNCHANGED <<tcFn, tcPlan, tcFinished>>
    /\ UNCHANGED composableFrame

\* lines 60-63 (119-122): testFn threw: cleanup, and the error is thrown again
TcCatch ==
    /\ tcPc = "catch"
    /\ Unmount
    /\ tcPc' = "done" /\ tcOutcome' = "thrown"
    /\ UNCHANGED <<tcFn, tcPlan, tcFinished>>
    /\ UNCHANGED composableFrame

\* the promise testFn returned settles
TcSettle ==
    /\ tcPc = "pending"
    /\ tcFinished' = TRUE
    /\ tcPc' = "finally"
    /\ UNCHANGED <<tcFn, tcPlan, unmounts, unmountedEarly, tcOutcome>>
    /\ UNCHANGED composableFrame

\* line 57 (116): the finally callback runs the cleanup, then the promise handed
\* to the caller settles as testFn's promise did
TcFinally ==
    /\ tcPc = "finally"
    /\ Unmount
    /\ tcPc' = "done"
    /\ tcOutcome' = IF tcPlan = "resolves" THEN "resolved" ELSE "rejected"
    /\ UNCHANGED <<tcFn, tcPlan, tcFinished>>
    /\ UNCHANGED composableFrame

NextComposable ==
    \/ TcMount
    \/ TcCallTestFn
    \/ TcCleanup
    \/ TcCatch
    \/ TcSettle
    \/ TcFinally

(***************************************************************************)
(* waitFor (src/test/helpers/index.ts): polls condition until it is true   *)
(* or more than timeout milliseconds have passed since the call.           *)
(***************************************************************************)
\* the clock of the model stops at MaxTime milliseconds
MaxTime == 4
\* the arguments tried
Timeouts == {0, 1, 2}
Intervals == {0, 1, 2}
\* what a call of condition can do
Evaluations == {"true", "false", "throws"}

\* waitFor is called; the clock shows some moment
InitWaitFor ==
    /\ now \in 0..1
    /\ wfTimeout \in Timeouts /\ wfInterval \in Intervals
    /\ wfPc = "call" /\ wfStart = 0 /\ wfWake = 0
    /\ lastEval = "none" /\ lastEvalAt = 0 /\ firstEval = "none" /\ slept = FALSE

\* time passes, between any two steps
Tick ==
    /\ wfPc # "idle"
    /\ now < MaxTime
    /\ now' = now + 1
    /\ UNCHANGED <<wfTimeout, wfInterval, wfPc, wfStart, wfWake, lastEval, lastEvalAt,
                   firstEval, slept>>
    /\ UNCHANGED waitForFrame

\* line 18: const startTime = Date.now()
WfCall ==
    /\ wfPc = "call"
    /\ wfStart' = now
    /\ wfPc' = "evaluate"
    /\ UNCHANGED <<now, wfTimeout, wfInterval, wfWake, lastEval, lastEvalAt, firstEval, slept>>
    /\ UNCHANGED waitForFrame

\* one turn of the loop with a timeout test that fires at exactly timeout
WfEvaluateInclusive ==
    /\ wfPc = "evaluate"
    /\ \E e \in Evaluations :
          /\ lastEval' = e /\ lastEvalAt' = now
          /\ firstEval' = IF firstEval = "none" THEN e ELSE firstEval
          /\ CASE e = "true" -> wfPc' = "resolved" /\ UNCHANGED <<wfWake, slept>>
               [] e = "throws" -> wfPc' = "conditionThrew" /\ UNCHANGED <<wfWake, slept>>
               [] e = "false" /\ now - wfStart >= wfTimeout ->
                      wfPc' = "timedOut" /\ UNCHANGED <<wfWake, slept>>
               [] OTHER -> wfPc' = "sleep" /\ wfWake' = now + wfInterval /\ slept' = TRUE
    /\ UNCHANGED <<now, wfTimeout, wfInterval, wfStart>>
    /\ UNCHANGED waitForFrame

\* lines 20-25: one turn of the loop: condition() is called; true ends the
\* loop and the promise resolves; false, and Date.now() - startTime > timeout,
\* throws the timeout error; false otherwise awaits a setTimeout of interval.
\* An error thrown by condition rejects the promise with that error.
WfEvaluate ==
    /\ wfPc = "evaluate"
    /\ \E e \in Evaluations :
          /\ lastEval' = e /\ lastEvalAt' = now
          /\ firstEval' = IF firstEval = "none" THEN e ELSE firstEval
          /\ CASE e = "true" -> wfPc' = "resolved" /\ UNCHANGED <<wfWake, slept>>
               [] e = "throws" -> wfPc' = "conditionThrew" /\ UNCHANGED <<wfWake, slept>>
               [] e = "false" /\ now - wfStart > wfTimeout ->
                      wfPc' = "timedOut" /\ UNCHANGED <<wfWake, slept>>
               [] OTHER -> wfPc' = "sleep" /\ wfWake' = now + wfInterval /\ slept' = TRUE
    /\ UNCHANGED <<now, wfTimeout, wfInterval, wfStart>>
    /\ UNCHANGED waitForFrame

\* line 24: the timer fires, not before interval milliseconds have passed
WfWake ==
    /\ wfPc = "sleep"
    /\ now >= wfWake
    /\ wfPc' = "evaluate"
    /\ UNCHANGED <<now, wfTimeout, wfInterval, wfStart, wfWake, lastEval, lastEvalAt,
                   firstEval, slept>>
    /\ UNCHANGED waitForFrame

NextWaitFor ==
    \/ Tick
    \/ WfCall
    \/ WfEvaluate
    \/ WfWake

(***************************************************************************)
(* A test that calls testComposable and waitFor: the steps of the two      *)
(* calls interleave on the event loop.                                     *)
(***************************************************************************)
InitHelpers ==
    /\ CliIdle /\ StorageIdle /\ RenderIdle /\ AriaIdle
    /\ InitComposable /\ InitWaitFor

NextHelpers == NextComposable \/ NextWaitFor

SpecHelpers == InitHelpers /\ [][NextHelpers]_vars

(***************************************************************************)
(* Properties of the helpers.                                              *)
(***************************************************************************)
\* what the caller gets for each thing testFn can do
OutcomeOf(plan) ==
    CASE plan = "returns" -> "undefined"
      [] plan = "throws" -> "thrown"
      [] plan = "resolves" -> "resolved"
      [] plan = "rejects" -> "rejected"

\* C27: testComposable (and testComposableWithProvide) unmounts the wrapper
\* exactly once whether testFn returns, throws, or returns a promise that
\* resolves or rejects; never before testFn has finished or its promise has
\* settled; and a throw or a rejection reaches the caller after the unmount.
C27_UnmountedOnce ==
    /\ unmounts <= 1
    /\ ~unmountedEarly
    /\ unmounts = 1 => tcFinished
    /\ tcPc = "done" => (unmounts = 1 /\ tcOutcome = OutcomeOf(tcPlan))
    /\ tcOutcome \in {"undefined", "thrown", "resolved", "rejected"} => unmounts = 1

C27_Witness ==
    /\ tcFn = "testComposableWithProvide" /\ tcPlan = "rejects"
    /\ tcPc = "done" /\ tcOutcome = "rejected" /\ unmounts = 1

\* C28: waitFor resolves only directly after a call of condition that
\* returned true; it rejects with the timeout error only after a call that
\* returned false more than timeout milliseconds after the start; condition
\* is called before the timeout is tested, so a condition true on its first
\* call resolves without any wait, also with timeout 0.
C28_WaitForOutcome ==
    /\ wfPc = "resolved" => lastEval = "true"
    /\ wfPc = "timedOut" => (lastEval = "false" /\ lastEvalAt - wfStart > wfTimeout)
    /\ firstEval = "true" => (wfPc = "resolved" /\ ~slept)

C28_Witness ==
    /\ wfPc = "timedOut" /\ slept /\ firstEval = "false"
    /\ wfTimeout > 0

(***************************************************************************)
(* The mount options built by render (src/test/setup.ts) and by            *)
(* renderComponent (src/test/helpers/vue-testing.ts).  An object is a      *)
(* function from its own property names to their values.                   *)
(***************************************************************************)
EmptyObject == [k \in {} |-> TRUE]

\* { ...a, ...b }: the properties of b come after, and replace, those of a
Spread(a, b) == [k \in DOMAIN a \cup DOMAIN b |-> IF k \in DOMAIN b THEN b[k] ELSE a[k]]
\* ...obj?.key and ...obj.key: spreading undefined adds nothing
SpreadOf(obj, key) == IF key \in DOMAIN obj THEN obj[key] ELSE EmptyObject
\* const { key: _, ...rest } = obj
Without(obj, key) == [k \in DOMAIN obj \ {key} |-> obj[k]]

\* the components a caller names in global.stubs
StubNames == {"RouterLink", "RouterView", "Teleport", "Child"}
CallerStubs == UNION {[S -> BOOLEAN] : S \in SUBSET StubNames}
\* options.global: with or without stubs, with or without another property
Plugins == [kind |-> "plugins"]
Globals ==
    {EmptyObject, [plugins |-> Plugins]}
    \cup {[stubs |-> s] : s \in CallerStubs}
    \cup {[stubs |-> s, plugins |-> Plugins] : s \in CallerStubs}
\* the options of a call: global, props and (renderComponent) shallow are optional
Props == [kind |-> "props"]
OptionsOver(base) ==
    base \cup {Spread(o, [global |-> g]) : o \in base, g \in Globals}
MountOptions ==
    OptionsOver({EmptyObject, [props |-> Props], [shallow |-> TRUE], [shallow |-> FALSE],
                 [props |-> Props, shallow |-> TRUE]})

\* the defaults both functions write out (setup.ts 179-182, vue-testing.ts 36-38)
DefaultStubs == [RouterLink |-> TRUE, RouterView |-> TRUE, Teleport |-> TRUE]

\* setup.ts 175-187: { ...options, global: { stubs: { defaults,
\* ...options.global?.stubs }, ...options.global } }
RenderOptions(options) ==
    Spread(options,
           [global |-> Spread([stubs |-> Spread(DefaultStubs,
                                                SpreadOf(SpreadOf(options, "global"), "stubs"))],
                              SpreadOf(options, "global"))])

\* vue-testing.ts 32-48: { ...mountOptions, global: { ...mountOptions.global,
\* stubs: { defaults, ...mountOptions.global?.stubs } } }
RenderComponentOptions(options) ==
    LET mountOptions == Without(options, "shallow")
    IN  Spread(mountOptions,
               [global |-> Spread(SpreadOf(mountOptions, "global"),
                                  [stubs |-> Spread(DefaultStubs,
                                       SpreadOf(SpreadOf(mountOptions, "global"), "stubs"))])])

\* vue-testing.ts 50-52: shallowMount when options.shallow is truthy
MountFunction(options) ==
    IF "shallow" \in DOMAIN options /\ options["shallow"] THEN "shallowMount" ELSE "mount"

InitRender ==
    /\ CliIdle /\ StorageIdle /\ ComposableIdle /\ WaitForIdle /\ AriaIdle
    /\ built = None

\* setup.ts 169-193: render(component, options)
Render ==
    /\ \E options \in MountOptions :
          built' = [by |-> "render", options |-> options, mount |-> "tlRender",
                    final |-> RenderOptions(options)]
    /\ UNCHANGED renderFrame

\* vue-testing.ts 28-53: renderComponent(component, options)
RenderComponent ==
    /\ \E options \in MountOptions :
          built' = [by |-> "renderComponent", options |-> options,
                    mount |-> MountFunction(options),
                    final |-> RenderComponentOptions(options)]
    /\ UNCHANGED renderFrame

NextRender == Render \/ RenderComponent

SpecRender == InitRender /\ [][NextRender]_vars

\* the stubs the caller gave, and the stubs of the options that were built
CallerStubsOf(options) == SpreadOf(SpreadOf(options, "global"), "stubs")
BuiltStubs == SpreadOf(SpreadOf(built.final, "global"), "stubs")

\* C29: for every options value, the mount options built by render and by
\* renderComponent stub RouterLink, RouterView and Teleport unless the
\* caller's global.stubs names that component: the caller's stubs are merged
\* on top of the defaults and never remove a default the caller did not name.
C29_RouterStubbedByDefault ==
    built # None =>
        /\ \A c \in DOMAIN DefaultStubs :
              /\ c \in DOMAIN BuiltStubs
              /\ BuiltStubs[c] = IF c \in DOMAIN CallerStubsOf(built.options)
                                 THEN CallerStubsOf(built.options)[c] ELSE TRUE
        /\ \A c \in DOMAIN CallerStubsOf(built.options) :
              c \in DOMAIN BuiltStubs /\ BuiltStubs[c] = CallerStubsOf(built.options)[c]

(***************************************************************************)
(* a11y.hasRequiredAriaAttributes and the matcher built on it              *)
(* (src/test/setup.ts).  An element is its role attribute and the set of   *)
(* the aria attributes it carries.                                         *)
(***************************************************************************)
\* element.getAttribute('role'): null when the attribute is absent
NoAttribute == [present |-> FALSE]
Attribute(value) == [present |-> TRUE, value |-> value]

\* lines 295-315: the attributes required for the common roles
RequiredAttributes ==
    [button |-> <<>>,
     link |-> <<>>,
     navigation |-> <<"aria-label">>,
     main |-> <<>>,
     complementary |-> <<"aria-label">>,
     contentinfo |-> <<>>,
     banner |-> <<>>,
     region |-> <<"aria-label">>,
     alert |-> <<>>,
     alertdialog |-> <<"aria-labelledby", "aria-describedby">>,
     dialog |-> <<"aria-labelledby">>,
     tab |-> <<"aria-selected", "aria-controls">>,
     tabpanel |-> <<"aria-labelledby">>,
     progressbar |-> <<"aria-valuenow", "aria-valuemin", "aria-valuemax">>,
     slider |-> <<"aria-valuenow", "aria-valuemin", "aria-valuemax">>,
     combobox |-> <<"aria-expanded", "aria-controls">>,
     menu |-> <<>>,
     menuitem |-> <<>>,
     tooltip |-> <<>>]

\* the attributes an element of the model can carry
AriaAttributes ==
    {"aria-label", "aria-labelledby", "aria-describedby", "aria-selected", "aria-controls",
     "aria-valuenow", "aria-valuemin", "aria-valuemax", "aria-expanded"}
\* the role attributes tried: absent, empty, every role of the table, another role
Roles == {NoAttribute, Attribute(""), Attribute("checkbox")}
         \cup {Attribute(r) : r \in DOMAIN RequiredAttributes}
Elements == [role : Roles, aria : SUBSET AriaAttributes]

\* line 292: !role is true for null and for the empty string
NoRole(element) == ~element.role.present \/ element.role.value = ""

\* line 317: requiredAttributes[role] || []
RequiredFor(element) ==
    IF element.role.value \in DOMAIN RequiredAttributes
    THEN RequiredAttributes[element.role.value]
    ELSE <<>>

\* a check that wants every listed attribute
HasEveryRequiredAriaAttribute(element) ==
    IF NoRole(element) THEN TRUE
    ELSE IF Len(RequiredFor(element)) = 0 THEN TRUE
    ELSE \A i \in 1..Len(RequiredFor(element)) : RequiredFor(element)[i] \in element.aria

\* lines 289-324: hasRequiredAriaAttributes(element)
HasRequiredAriaAttributes(element) ==
    IF NoRole(element) THEN TRUE
    ELSE IF Len(RequiredFor(element)) = 0 THEN TRUE
    ELSE \E i \in 1..Len(RequiredFor(element)) : RequiredFor(element)[i] \in element.aria

\* the answer of the last check has been looked at
Looked == [kind |-> "looked"]
\* no check is waiting to be looked at
NoCheck == checked \in {None, Looked}

InitAria ==
    /\ CliIdle /\ StorageIdle /\ ComposableIdle /\ WaitForIdle /\ RenderIdle
    /\ checked = None

\* a test calls a11y.hasRequiredAriaAttributes(element)
CallHasRequiredAriaAttributes ==
    /\ NoCheck
    /\ \E element \in Elements :
          checked' = [by |-> "a11y", element |-> element,
                      pass |-> HasRequiredAriaAttributes(element)]
    /\ UNCHANGED ariaFrame

\* lines 354-364: expect(element).toHaveRequiredAriaAttributes()
ToHaveRequiredAriaAttributes ==
    /\ NoCheck
    /\ \E element \in Elements :
          checked' = [by |-> "matcher", element |-> element,
                      pass |-> HasRequiredAriaAttributes(element)]
    /\ UNCHANGED ariaFrame

\* the test has looked at the answer and goes on to its next check
NextAssertion ==
    /\ ~NoCheck
    /\ checked' = Looked
    /\ UNCHANGED ariaFrame

NextAria == CallHasRequiredAriaAttributes \/ ToHaveRequiredAriaAttributes \/ NextAssertion

SpecAria == InitAria /\ [][NextAria]_vars

\* the role of the element checked is one of the table's, with a non-empty list
ListedRole(element) ==
    /\ element.role.present
    /\ element.role.value \in DOMAIN RequiredAttributes
    /\ RequiredAttributes[element.role.value] # <<>>

====
